---------------------------- MODULE Spec2Model ----------------------------
(***************************************************************************)
(* Model of prowler's AWS provider core:                                   *)
(*   - generate_regional_clients   (providers/aws/aws_provider.py)         *)
(*   - the Backup collector        (services/backup/backup_service.py)     *)
(*   - AWS_Provider.refresh / assume_role (providers/aws/aws_provider.py)  *)
(*                                                                         *)
(* Python values: None is the string "None" where the other values are     *)
(* strings, and a tagged record where they are collections.  A dict is the *)
(* sequence of its values in insertion order (each client carries its key  *)
(* in region_name).                                                        *)
(***************************************************************************)
EXTENDS Naturals, Sequences, FiniteSets, TLC

VARIABLES
    \* ---- inputs (audit_info and the arguments of the call) ----
    caller,             \* who runs: "direct" (generate_regional_clients alone) or "Backup"
    service,            \* argument service
    global_service,     \* argument global_service
    audited_partition,  \* audit_info.audited_partition
    audited_regions,    \* audit_info.audited_regions (the allow-list; empty = falsy)
    profile_region,     \* audit_info.profile_region ("None" when unset)
    audit_resources,    \* audit_info.audit_resources (the ARN inclusion filter)
    client_raises,      \* environment: regions where audit_session.client(...) raises
    \* ---- generate_regional_clients ----
    pc,                 \* position of the main thread
    regions,            \* local "regions": the list the for loop runs over
    visited,            \* regions the for loop is done with
    building,           \* local "regional_clients" while it is being filled
    regional_clients,   \* what generate_regional_clients returned
    log,                \* logger output: a set of records
    \* ---- Backup ----
    region,             \* Backup.region
    backup_vaults, backup_plans, backup_report_plans,
    op,                 \* index in Calls of the running __threading_call__
    idx,                \* loop index of the start / join loops
    threads,            \* threads[o][r]: "none" | "created" | "running" | "terminated"
    wpc,                \* wpc[r]: position of region r's worker in its listing method
    wpage,              \* wpage[r]: items of the current page not yet visited
    wmore,              \* wmore[r]: the paginator has a further page
    listed,             \* history: listed[o][r], the pages the service returned
    unfetched,          \* history: unfetched[o][r], items on pages never requested
    raised,             \* history: raised[o][r], where the worker raised ("no" if not)
    \* ---- credentials ----
    now,                \* the clock (seconds)
    assumed_role_info,  \* audit_info.assumed_role_info
    credentials,        \* audit_info.credentials
    session_raises,     \* environment: boto3 cannot build the session (bad profile)
    aws_session,        \* AWS_Provider.aws_session
    cpc,                \* cpc[c]: position of caller c in refresh / assume_role
    observed,           \* history: expiry of the credential c found expired
    sts_calls,          \* history: sts assume_role calls issued by c's invocation
    sts_request,        \* sts_request[c]: the arguments of c's sts assume_role call
    response,           \* response[c]: what sts assume_role answered
    returned,           \* returned[c]: what refresh returned to c
    exit_code,          \* status of sys.exit ("None" if it was not called)
    \* ---- get_checks_from_input_arn / get_regions_from_audit_resources ----
    fn,                 \* the function that runs
    arns,               \* its argument audit_resources: a list of ARN strings
    apc,                \* its position
    seen,               \* resources the for loop is done with
    service_list,       \* local service_list
    sub_service_list,   \* local sub_service_list
    sub_service,        \* local sub_service: the loop's variable, alive after it
    checks_from_arn,    \* local checks_from_arn
    region_list,        \* local audited_regions of get_regions_from_audit_resources
    result              \* what the function returned

clientVars == <<caller, service, global_service, audited_partition, audited_regions,
                profile_region, client_raises, pc, regions, visited, building,
                regional_clients, log>>
backupVars == <<audit_resources, region, backup_vaults, backup_plans,
                backup_report_plans, op, idx, threads, wpc, wpage, wmore, listed,
                unfetched, raised>>
credVars   == <<now, assumed_role_info, credentials, session_raises, aws_session,
                cpc, observed, sts_calls, sts_request, response, returned, exit_code>>
clientVars_but_pc == <<caller, service, global_service, audited_partition,
                       audited_regions, profile_region, client_raises, regions,
                       visited, building, regional_clients, log>>
arnVars    == <<fn, arns, apc, seen, service_list, sub_service_list, sub_service,
                checks_from_arn, region_list, result>>
vars == <<clientVars, backupVars, credVars, arnVars>>

NoneVal == "None"

-----------------------------------------------------------------------------
(* The region catalog (aws_regions_by_service.json): data["services"]      *)
(* [service]["regions"][partition] is an ordered list of regions.          *)

Catalog ==
    [ backup |-> ("aws" :> <<"us-east-1", "eu-west-1">>),
      iam    |-> ("aws" :> <<"us-east-1", "eu-west-1", "ap-south-1">>
                  @@ "aws-cn" :> <<"cn-north-1">>) ]

Services   == {"backup", "iam", "appstream"}
Partitions == {"aws", "aws-cn"}
AllRegions == {"us-east-1", "eu-west-1", "ap-south-1", "cn-north-1"}

\* data["services"][service]["regions"][partition] raises KeyError on a miss
CatalogHas(s, p) == s \in DOMAIN Catalog /\ p \in DOMAIN Catalog[s]
json_regions(s, p) == Catalog[s][p]

Range(q) == { q[i] : i \in 1..Len(q) }

\* list(set(a).intersection(b)): the elements in some order (set iteration order)
Orders(S) == { q \in [1..Cardinality(S) -> S] : Range(q) = S }

\* a variant of line 131 that keeps the whole list
FirstOnly_All(q) == q

\* regions[:1]
FirstOnly(q) == IF q = <<>> THEN <<>> ELSE <<Head(q)>>

\* lines 127-131: global services gather one region only
CollapseGlobal(q, glob, prof) ==
    IF glob /\ q # <<>>
    THEN FirstOnly(IF prof \in Range(q) THEN <<prof>> ELSE q)
    ELSE q

\* a variant of lines 120-125 that adds the allow-list to the catalog's regions
EffectiveRegions_Union(json, audited, glob, prof) ==
    { CollapseGlobal(q, glob, prof) : q \in Orders(Range(json) \cup audited) }

\* lines 120-131: the lists "regions" may be bound to before the for loop
EffectiveRegions(json, audited, glob, prof) ==
    { CollapseGlobal(q, glob, prof) :
        q \in IF audited # {} THEN Orders(Range(json) \cap audited) ELSE {json} }

\* a variant of lines 133-136 without line 136
RegionalClient_Unset(r) == [region_name |-> r, region |-> NoneVal]

\* lines 133-136: the client built for a region
RegionalClient(r) == [region_name |-> r, region |-> r]

NoneDict  == [none |-> TRUE,  clients |-> <<>>]
Dict(cs)  == [none |-> FALSE, clients |-> cs]
Keys(d)   == { d.clients[i].region_name : i \in 1..Len(d.clients) }

LogEntry(level, where, what) == [level |-> level, where |-> where, what |-> what]

-----------------------------------------------------------------------------
(* generate_regional_clients (aws_provider.py 107-142), one step per       *)
(* statement group; the for loop takes one step per region.                *)

\* where the main thread goes on after generate_regional_clients returns
AfterClients == IF caller = "Backup" THEN "backup_region" ELSE "returned"

\* lines 111-131: the catalog lookup and the effective regions
GenerateRegionalClients_Regions ==
    /\ pc = "grc_regions"
    /\ IF CatalogHas(service, audited_partition)
       THEN /\ \E q \in EffectiveRegions(json_regions(service, audited_partition),
                                         audited_regions, global_service,
                                         profile_region) :
                 regions' = q
            /\ pc' = "grc_loop"
       ELSE /\ regions' = regions      \* KeyError
            /\ pc' = "grc_except"
    /\ building' = <<>> /\ visited' = 0
    /\ UNCHANGED <<caller, service, global_service, audited_partition,
                   audited_regions, profile_region, client_raises,
                   regional_clients, log>>
    /\ UNCHANGED <<backupVars, credVars, arnVars>>

\* lines 132-137: one iteration of the for loop
GenerateRegionalClients_Client ==
    /\ pc = "grc_loop"
    /\ visited < Len(regions)
    /\ IF regions[visited + 1] \in client_raises
       THEN /\ pc' = "grc_except"
            /\ UNCHANGED <<visited, building>>
       ELSE /\ building' = Append(building, RegionalClient(regions[visited + 1]))
            /\ visited' = visited + 1
            /\ pc' = "grc_loop"
    /\ UNCHANGED <<caller, service, global_service, audited_partition,
                   audited_regions, profile_region, client_raises, regions,
                   regional_clients, log>>
    /\ UNCHANGED <<backupVars, credVars, arnVars>>

\* line 138: return regional_clients
GenerateRegionalClients_Return ==
    /\ pc = "grc_loop"
    /\ visited = Len(regions)
    /\ regional_clients' = Dict(building)
    /\ pc' = AfterClients
    /\ UNCHANGED <<caller, service, global_service, audited_partition,
                   audited_regions, profile_region, client_raises, regions,
                   visited, building, log>>
    /\ UNCHANGED <<backupVars, credVars, arnVars>>

\* lines 139-142: except Exception: logger.error(...); the function ends
\* without a return statement, so the caller gets None
GenerateRegionalClients_Except ==
    /\ pc = "grc_except"
    /\ log' = log \cup {LogEntry("error", "generate_regional_clients", service)}
    /\ regional_clients' = NoneDict
    /\ pc' = AfterClients
    /\ UNCHANGED <<caller, service, global_service, audited_partition,
                   audited_regions, profile_region, client_raises, regions,
                   visited, building>>
    /\ UNCHANGED <<backupVars, credVars, arnVars>>

generate_regional_clients ==
    \/ GenerateRegionalClients_Regions
    \/ GenerateRegionalClients_Client
    \/ GenerateRegionalClients_Return
    \/ GenerateRegionalClients_Except

-----------------------------------------------------------------------------
(* The Backup collector (backup_service.py).                               *)

\* the three __threading_call__ invocations of __init__, lines 27, 29, 31
Calls == <<"list_backup_vaults", "list_backup_plans", "list_backup_report_plans">>
Ops   == 1..Len(Calls)

\* lines 48 and 86 iterate a paginator; line 119 is a single list_report_plans() call
Paginated(o) == Calls[o] # "list_backup_report_plans"

\* bounds of the environment (what the Backup API returns)
PageSize  == 2      \* items on one page
MaxPages  == 2      \* pages of one listing
MaxListed == 3      \* items listed in one run, all regions and operations together
MaxFaults == 1      \* API errors and unconvertible items in one run
MaxFollowUps == 1   \* pages a paginator is asked for after a NextToken, in one run

\* an ARN the Backup API returns: the n-th resource of a kind in a region
Arn(o, r, n) == [service |-> "backup", region |-> r, resource |-> Calls[o], id |-> n]

\* an item as the API lists it.  attr is the field the pydantic model requires and
\* the API may leave out: EncryptionKeyArn (BackupVault.encryption: str),
\* LastExecutionDate (BackupPlan.last_execution_date: datetime),
\* LastSuccessfulExecutionTime (BackupReportPlan.last_successful_execution_date)
Item(o, r, n, a) == [arn |-> Arn(o, r, n), attr |-> a]
AttrValues == {"set", NoneVal}

\* BackupVault(...), BackupPlan(...), BackupReportPlan(...): pydantic raises a
\* ValidationError when a required field is None
ConvertRaises(item) == item.attr = NoneVal
Record(item, client) == [arn |-> item.arn, region |-> client.region, attr |-> item.attr]

\* prowler.lib.scan_filters.is_resource_filtered: the ARN matches an entry of the filter
is_resource_filtered(arn, resources) == arn \in resources

\* mutant: the filter is not consulted
Kept_Any(item, resources) == TRUE

\* lines 50-55, 88-93, 123-128: the condition under which an item is kept
Kept(item, resources) == resources = {} \/ is_resource_filtered(item.arn, resources)

\* the inclusion filters of a run
AuditResourceChoices ==
    { {},
      { Arn(1, "us-east-1", 1), Arn(2, "us-east-1", 2), Arn(3, "eu-west-1", 1) },
      { [service |-> "ec2", region |-> "us-east-1", resource |-> "instance", id |-> 1] } }

RECURSIVE Flatten(_)
Flatten(pages) == IF pages = <<>> THEN <<>> ELSE Head(pages) \o Flatten(Tail(pages))

RECURSIVE SumOver(_, _)
SumOver(S, f) == IF S = {} THEN 0
                 ELSE LET x == CHOOSE y \in S : TRUE IN f[x] + SumOver(S \ {x}, f)

Slots == Ops \X AllRegions
ItemsListed(o, r) == Flatten(listed[o][r])
NListed == SumOver(Slots, [s \in Slots |-> Len(ItemsListed(s[1], s[2])) + Len(unfetched[s[1]][s[2]])])
NFaults == SumOver(Slots, [s \in Slots |->
              (IF raised[s[1]][s[2]] = "page" THEN 1 ELSE 0)
              + Cardinality({ i \in 1..Len(ItemsListed(s[1], s[2])) :
                                ConvertRaises(ItemsListed(s[1], s[2])[i]) })])

\* the page requests of a run that followed a NextToken: those answered or failed,
\* and those the running workers are still to make
NFollowUps ==
    SumOver(Slots, [s \in Slots |->
        IF ~Paginated(s[1]) \/ listed[s[1]][s[2]] = <<>> THEN 0
        ELSE (Len(listed[s[1]][s[2]]) - 1)
             + (IF \/ raised[s[1]][s[2]] = "page"
                   \/ threads[s[1]][s[2]] = "running" /\ wmore[s[2]]
                THEN 1 ELSE 0)])

\* the pages the API may return next for (o, r): k items numbered on from the ones
\* listed so far, each with or without the optional field
NewPages(o, r) ==
    LET base == Len(ItemsListed(o, r))
        room == MaxListed - NListed
        bad  == MaxFaults - NFaults
    IN  { pg \in UNION { [1..k -> AttrValues] : k \in 0..PageSize } :
            /\ Len(pg) <= room
            /\ Cardinality({ i \in 1..Len(pg) : pg[i] = NoneVal }) <= bad }

PageItems(o, r, pg) ==
    [ i \in 1..Len(pg) |-> Item(o, r, Len(ItemsListed(o, r)) + i, pg[i]) ]

\* the container a listing method appends to
Container(o) == CASE o = 1 -> backup_vaults
                  [] o = 2 -> backup_plans
                  [] o = 3 -> backup_report_plans

\* the regional client of region r (the argument of r's worker)
ClientOf(r) == LET i == CHOOSE j \in 1..Len(regional_clients.clients) :
                            regional_clients.clients[j].region_name = r
               IN regional_clients.clients[i]

\* a variant of the append that puts the record at the front of the list
AppendTo_Front(o, rec) ==
    /\ backup_vaults' = IF o = 1 THEN <<rec>> \o backup_vaults ELSE backup_vaults
    /\ backup_plans' = IF o = 2 THEN <<rec>> \o backup_plans ELSE backup_plans
    /\ backup_report_plans' = IF o = 3 THEN <<rec>> \o backup_report_plans
                                       ELSE backup_report_plans

\* self.<container>.append(record): one call on a list, atomic under the interpreter lock
AppendTo(o, rec) ==
    /\ backup_vaults' = IF o = 1 THEN Append(backup_vaults, rec) ELSE backup_vaults
    /\ backup_plans' = IF o = 2 THEN Append(backup_plans, rec) ELSE backup_plans
    /\ backup_report_plans' = IF o = 3 THEN Append(backup_report_plans, rec)
                                       ELSE backup_report_plans

\* where a worker goes on once the page at hand has "rest" left
AfterItem(o, rest, more) ==
    IF rest # <<>> THEN "items"
    ELSE IF more /\ Paginated(o) THEN "page" ELSE "return"

Clients == regional_clients.clients

\* lines 19-25: self.region
Backup_Region ==
    /\ pc = "backup_region"
    /\ IF profile_region # NoneVal
       THEN region' = profile_region /\ pc' = "call"
       ELSE IF regional_clients.none \/ Clients = <<>>
            THEN region' = region /\ pc' = "raised"   \* AttributeError / IndexError
            ELSE region' = Clients[1].region_name /\ pc' = "call"
    /\ op' = 1
    /\ UNCHANGED <<audit_resources, backup_vaults, backup_plans, backup_report_plans,
                   idx, threads, wpc, wpage, wmore, listed, unfetched, raised>>
    /\ UNCHANGED <<caller, service, global_service, audited_partition,
                   audited_regions, profile_region, client_raises, regions,
                   visited, building, regional_clients, log>>
    /\ UNCHANGED <<credVars, arnVars>>

\* the statement after __threading_call__ has returned
NextCall ==
    IF op < Len(Calls) THEN pc' = "call" /\ op' = op + 1
                       ELSE pc' = "done" /\ op' = op

\* lines 26, 28, 30 (the container starts empty) and lines 34-36 of
\* __threading_call__: one Thread object per regional client
threading_call_Create ==
    /\ pc = "call"
    /\ IF regional_clients.none
       THEN /\ pc' = "raised" /\ op' = op        \* AttributeError: None.values()
            /\ UNCHANGED <<threads, idx>>
       ELSE /\ threads' = [threads EXCEPT ![op] =
                             [r \in AllRegions |->
                                IF r \in Keys(regional_clients) THEN "created" ELSE "none"]]
            /\ idx' = 1
            /\ IF Clients = <<>> THEN NextCall ELSE pc' = "start" /\ op' = op
    /\ UNCHANGED <<audit_resources, region, backup_vaults, backup_plans,
                   backup_report_plans, wpc, wpage, wmore, listed, unfetched, raised>>
    /\ UNCHANGED <<clientVars_but_pc, credVars, arnVars>>

\* lines 37-38: t.start(), one thread per step
threading_call_Start ==
    /\ pc = "start"
    /\ LET r == Clients[idx].region_name IN
         /\ threads' = [threads EXCEPT ![op][r] = "running"]
         /\ wpc' = [wpc EXCEPT ![r] = "start"]
    /\ IF idx < Len(Clients) THEN idx' = idx + 1 /\ pc' = "start"
                             ELSE idx' = 1 /\ pc' = "join"
    /\ UNCHANGED <<audit_resources, region, backup_vaults, backup_plans,
                   backup_report_plans, op, wpage, wmore, listed, unfetched, raised>>
    /\ UNCHANGED <<clientVars_but_pc, credVars, arnVars>>

\* mutant: join does not wait for the thread (fire and forget)
JoinReturns_NoWait(t) == TRUE

\* t.join() returns once thread t has terminated
JoinReturns(t) == threads[op][t] = "terminated"

\* lines 39-40: t.join(), one thread per step
threading_call_Join ==
    /\ pc = "join"
    /\ JoinReturns(Clients[idx].region_name)
    /\ IF idx < Len(Clients) THEN idx' = idx + 1 /\ pc' = "join" /\ op' = op
                             ELSE idx' = idx /\ NextCall
    /\ UNCHANGED <<audit_resources, region, backup_vaults, backup_plans,
                   backup_report_plans, threads, wpc, wpage, wmore, listed,
                   unfetched, raised>>
    /\ UNCHANGED <<clientVars_but_pc, credVars, arnVars>>

Running(o, r) == threads[o][r] = "running"

\* lines 43, 81, 116: logger.info(...), the first statement of a listing method,
\* before its try; the record is kept with the worker's method and region
Worker_Start(o, r) ==
    /\ Running(o, r) /\ wpc[r] = "start"
    /\ log' = log \cup {LogEntry("info", Calls[o], r)}
    /\ wpc' = [wpc EXCEPT ![r] = "page"]
    /\ UNCHANGED <<audit_resources, region, backup_vaults, backup_plans,
                   backup_report_plans, op, idx, threads, wpage, wmore, listed,
                   unfetched, raised>>
    /\ UNCHANGED <<caller, service, global_service, audited_partition,
                   audited_regions, profile_region, client_raises, pc, regions,
                   visited, building, regional_clients>>
    /\ UNCHANGED <<credVars, arnVars>>

\* lines 45-48, 83-86: the paginator yields its next page; lines 119-121:
\* list_report_plans().  The API call raises, or returns a page and whether a
\* further page exists (a NextToken).  Any page may be empty, whether or not
\* another page follows it.
Worker_Page(o, r) ==
    /\ Running(o, r) /\ wpc[r] = "page"
    /\ \/ /\ NFaults < MaxFaults
          /\ raised' = [raised EXCEPT ![o][r] = "page"]
          /\ wpc' = [wpc EXCEPT ![r] = "except"]
          /\ UNCHANGED <<listed, unfetched, wpage, wmore>>
       \/ \E pg \in NewPages(o, r), more \in BOOLEAN :
            /\ more => Len(listed[o][r]) + 1 < MaxPages
            /\ (more /\ Paginated(o)) => NFollowUps < MaxFollowUps
            /\ (more /\ ~Paginated(o)) => NListed + Len(pg) < MaxListed
            /\ listed' = [listed EXCEPT ![o][r] = Append(@, PageItems(o, r, pg))]
            /\ unfetched' = IF more /\ ~Paginated(o)
                            THEN [unfetched EXCEPT ![o][r] =
                                    <<Item(o, r, Len(ItemsListed(o, r)) + Len(pg) + 1, "set")>>]
                            ELSE unfetched
            /\ wpage' = [wpage EXCEPT ![r] = PageItems(o, r, pg)]
            /\ wmore' = [wmore EXCEPT ![r] = more]
            /\ wpc' = [wpc EXCEPT ![r] = AfterItem(o, PageItems(o, r, pg), more)]
            /\ UNCHANGED raised
    /\ UNCHANGED <<audit_resources, region, backup_vaults, backup_plans,
                   backup_report_plans, op, idx, threads>>
    /\ UNCHANGED <<clientVars, credVars, arnVars>>

\* lines 49-73, 87-108, 122-141: one item of the page: the filter, the conversion
\* to the pydantic model, the append
Worker_Item(o, r) ==
    /\ Running(o, r) /\ wpc[r] = "items"
    /\ LET item == Head(wpage[r]) IN
         IF Kept(item, audit_resources)
         THEN IF ConvertRaises(item)
              THEN /\ raised' = [raised EXCEPT ![o][r] = "convert"]
                   /\ wpc' = [wpc EXCEPT ![r] = "except"]
                   /\ UNCHANGED <<backup_vaults, backup_plans, backup_report_plans, wpage>>
              ELSE /\ AppendTo(o, Record(item, ClientOf(r)))
                   /\ wpage' = [wpage EXCEPT ![r] = Tail(@)]
                   /\ wpc' = [wpc EXCEPT ![r] = AfterItem(o, Tail(wpage[r]), wmore[r])]
                   /\ UNCHANGED raised
         ELSE /\ wpage' = [wpage EXCEPT ![r] = Tail(@)]
              /\ wpc' = [wpc EXCEPT ![r] = AfterItem(o, Tail(wpage[r]), wmore[r])]
              /\ UNCHANGED <<backup_vaults, backup_plans, backup_report_plans, raised>>
    /\ UNCHANGED <<audit_resources, region, op, idx, threads, wmore, listed, unfetched>>
    /\ UNCHANGED <<clientVars, credVars, arnVars>>

\* the listing method returns: the thread ends
Worker_Return(o, r) ==
    /\ Running(o, r) /\ wpc[r] = "return"
    /\ threads' = [threads EXCEPT ![o][r] = "terminated"]
    /\ wpc' = [wpc EXCEPT ![r] = "off"]
    /\ UNCHANGED <<audit_resources, region, backup_vaults, backup_plans,
                   backup_report_plans, op, idx, wpage, wmore, listed, unfetched, raised>>
    /\ UNCHANGED <<clientVars, credVars, arnVars>>

\* lines 75-78, 110-113, 143-146 without the containers, which they leave alone
ExceptCommon(o, r) ==
    /\ Running(o, r) /\ wpc[r] = "except"
    /\ log' = log \cup {LogEntry("error", Calls[o], ClientOf(r).region)}
    /\ threads' = [threads EXCEPT ![o][r] = "terminated"]
    /\ wpc' = [wpc EXCEPT ![r] = "off"]
    /\ wpage' = [wpage EXCEPT ![r] = <<>>]
    /\ UNCHANGED <<audit_resources, region, op, idx, wmore, listed, unfetched, raised>>
    /\ UNCHANGED <<caller, service, global_service, audited_partition,
                   audited_regions, profile_region, client_raises, pc, regions,
                   visited, building, regional_clients>>
    /\ UNCHANGED <<credVars, arnVars>>

\* mutant: the except clause empties the container of the operation
Worker_Except_Reset(o, r) ==
    /\ ExceptCommon(o, r)
    /\ backup_vaults' = IF o = 1 THEN <<>> ELSE backup_vaults
    /\ backup_plans' = IF o = 2 THEN <<>> ELSE backup_plans
    /\ backup_report_plans' = IF o = 3 THEN <<>> ELSE backup_report_plans

\* lines 75-78, 110-113, 143-146: except Exception: logger.error(region ...);
\* the method returns and the thread ends
Worker_Except(o, r) ==
    /\ ExceptCommon(o, r)
    /\ UNCHANGED <<backup_vaults, backup_plans, backup_report_plans>>

Worker(o, r) ==
    \/ Worker_Start(o, r)
    \/ Worker_Page(o, r)
    \/ Worker_Item(o, r)
    \/ Worker_Return(o, r)
    \/ Worker_Except(o, r)

list_backup_vaults(r)       == Worker(1, r)
list_backup_plans(r)        == Worker(2, r)
list_backup_report_plans(r) == Worker(3, r)

Backup ==
    \/ Backup_Region
    \/ threading_call_Create
    \/ threading_call_Start
    \/ threading_call_Join
    \/ \E r \in AllRegions : list_backup_vaults(r)
    \/ \E r \in AllRegions : list_backup_plans(r)
    \/ \E r \in AllRegions : list_backup_report_plans(r)

-----------------------------------------------------------------------------
(* Credentials: AWS_Provider.set_session, AWS_Provider.refresh and         *)
(* assume_role (aws_provider.py 26-104).  Thread 0 is the main thread,     *)
(* which assumes the role first and builds the session; threads 1..NCallers *)
(* make API calls with that session and run the refresh callback when they *)
(* find the credential expired or about to expire.                         *)

NCallers == 2       \* threads making API calls
MaxClock == 3       \* the clock stops here

MainThread == 0
Callers    == 1..NCallers
Threads    == {MainThread} \cup Callers

\* assumed_role_info.session_duration values of a run (seconds)
SessionDurations == {2, 3}

NoRole        == [role_arn |-> NoneVal, external_id |-> NoneVal, session_duration |-> 0]
NoCredentials == [present |-> FALSE, expiration |-> 0]
NoSession     == [kind |-> NoneVal, expiry |-> 0]
NoRequest     == [RoleSessionName |-> NoneVal]
NoResponse    == [Credentials |-> NoneVal]
NoReturn      == [expiry_time |-> NoneVal]

\* datetime.isoformat() and the parse the credential object applies to expiry_time:
\* the text of an instant, and the instant of a text
isoformat(t) == [iso8601 |-> t]
parse_iso(x) == x.iso8601

\* lines 85-98: the sts assume_role call, with ExternalId only if one is set
AssumeRoleRequest(info) ==
    IF info.external_id # NoneVal
    THEN [RoleArn |-> info.role_arn, RoleSessionName |-> "ProwlerAsessmentSession",
          DurationSeconds |-> info.session_duration, ExternalId |-> info.external_id]
    ELSE [RoleArn |-> info.role_arn, RoleSessionName |-> "ProwlerProAsessmentSession",
          DurationSeconds |-> info.session_duration]

\* the number of sts assume_role calls one execution of lines 83-98 issues
CallsIssued(info) ==
    (IF info.external_id # NoneVal THEN 1 ELSE 0)
    + (IF info.external_id # NoneVal THEN 0 ELSE 1)

\* lines 67-74: the dict refresh builds from the response
RefreshedCredentials(resp) ==
    [access_key  |-> resp.Credentials.AccessKeyId,
     secret_key  |-> resp.Credentials.SecretAccessKey,
     token       |-> resp.Credentials.SessionToken,
     expiry_time |-> isoformat(resp.Credentials.Expiration)]

\* the STS service: credentials that expire DurationSeconds from now
StsResponse(req, c) ==
    [Credentials |-> [AccessKeyId |-> "key", SecretAccessKey |-> "secret",
                      SessionToken |-> <<c, now>>,
                      Expiration |-> now + req.DurationSeconds]]

credLocals == <<caller, service, global_service, audited_partition, audited_regions,
                profile_region, client_raises, regions, visited, building,
                regional_clients>>

\* the setup code assumes the role before the provider exists (it calls assume_role);
\* without a role there are no credentials and set_session runs at once
InitialAssumption ==
    /\ pc = "establish"
    /\ IF assumed_role_info.role_arn # NoneVal
       THEN cpc' = [cpc EXCEPT ![MainThread] = "assume_role"] /\ pc' = "assuming"
       ELSE cpc' = cpc /\ pc' = "provider"
    /\ UNCHANGED <<now, assumed_role_info, credentials, session_raises, aws_session,
                   observed, sts_calls, sts_request, response, returned, exit_code>>
    /\ UNCHANGED <<credLocals, log, backupVars, arnVars>>

\* lines 81-98 when line 83 succeeds: assume_role builds the sts client and
\* issues the sts call
assume_role_Call(c) ==
    /\ cpc[c] = "assume_role"
    /\ sts_request' = [sts_request EXCEPT ![c] = AssumeRoleRequest(assumed_role_info)]
    /\ sts_calls' = [sts_calls EXCEPT ![c] = @ + CallsIssued(assumed_role_info)]
    /\ cpc' = [cpc EXCEPT ![c] = "sts"]
    /\ UNCHANGED <<now, assumed_role_info, credentials, session_raises, aws_session,
                   observed, response, returned, exit_code>>
    /\ UNCHANGED <<credLocals, pc, log, backupVars, arnVars>>

\* the STS service answers the call in flight, or the call raises
Sts(c) ==
    /\ cpc[c] = "sts"
    /\ \/ /\ response' = [response EXCEPT ![c] = StsResponse(sts_request[c], c)]
          /\ cpc' = [cpc EXCEPT ![c] = "sts_ok"]
       \/ /\ response' = response
          /\ cpc' = [cpc EXCEPT ![c] = "sts_error"]
    /\ UNCHANGED <<now, assumed_role_info, credentials, session_raises, aws_session,
                   observed, sts_calls, sts_request, returned, exit_code>>
    /\ UNCHANGED <<credLocals, pc, log, backupVars, arnVars>>

\* what reaches the caller of assume_role when the sts call raised
\* (lines 99-101: except Exception: logger.critical(...); sys.exit(1))
AssumeRoleOnError == "SystemExit"

\* lines 99-101: except Exception: logger.critical(...); sys.exit(1), for an
\* exception raised anywhere in the try of lines 81-98
ExceptHandler(c) ==
    /\ cpc' = [cpc EXCEPT ![c] = AssumeRoleOnError]
    /\ log' = log \cup {LogEntry("critical", "assume_role", c)}
    /\ exit_code' = 1
    /\ pc' = IF c = MainThread THEN "exited" ELSE pc
    /\ UNCHANGED <<now, assumed_role_info, credentials, session_raises, aws_session,
                   observed, sts_calls, sts_request, response, returned>>
    /\ UNCHANGED <<credLocals, backupVars, arnVars>>

\* line 83 raises: session.client("sts") fails inside the try, before any sts
\* assume_role call is issued, and the except of lines 99-101 runs
assume_role_ClientRaises(c) ==
    /\ cpc[c] = "assume_role"
    /\ ExceptHandler(c)

\* lines 99-101, after the sts assume_role call raised
assume_role_Except(c) ==
    /\ cpc[c] = "sts_error"
    /\ ExceptHandler(c)

\* lines 103-104: assume_role returns the response.  The setup code stores the
\* credentials of the first assumption in audit_info.credentials.
assume_role_Return(c) ==
    /\ cpc[c] = "sts_ok"
    /\ IF c = MainThread
       THEN /\ credentials' = [present |-> TRUE,
                               expiration |-> response[c].Credentials.Expiration]
            /\ cpc' = [cpc EXCEPT ![c] = "off"]
            /\ pc' = "provider"
       ELSE /\ cpc' = [cpc EXCEPT ![c] = "refresh_build"]
            /\ UNCHANGED <<credentials, pc>>
    /\ UNCHANGED <<now, assumed_role_info, session_raises, aws_session, observed,
                   sts_calls, sts_request, response, returned, exit_code>>
    /\ UNCHANGED <<credLocals, log, backupVars, arnVars>>

\* lines 18-20: AWS_Provider.__init__ logs "Instantiating aws provider ..." and
\* calls set_session
AWS_Provider_init ==
    /\ pc = "provider"
    /\ log' = log \cup {LogEntry("info", "__init__", MainThread)}
    /\ pc' = "set_session"
    /\ UNCHANGED <<credVars, credLocals, backupVars, arnVars>>

\* lines 26-58: set_session logs which session it creates (line 30 with
\* credentials of an assumed role, line 54 without) and creates it; if that
\* raises, lines 56-58 log the error as critical and call sys.exit(1)
set_session ==
    /\ pc = "set_session"
    /\ IF session_raises
       THEN /\ log' = log \cup {LogEntry("info", "set_session", MainThread),
                                LogEntry("critical", "set_session", MainThread)}
            /\ exit_code' = 1
            /\ pc' = "exited"
            /\ UNCHANGED <<aws_session, cpc>>
       ELSE /\ log' = log \cup {LogEntry("info", "set_session", MainThread)}
            /\ aws_session' = IF credentials.present
                              THEN [kind |-> "sts-assume-role",
                                    expiry |-> credentials.expiration]
                              ELSE [kind |-> "profile", expiry |-> 0]
            /\ cpc' = [c \in Threads |-> IF c \in Callers THEN "idle" ELSE cpc[c]]
            /\ pc' = "session"
            /\ UNCHANGED exit_code
    /\ UNCHANGED <<now, assumed_role_info, credentials, session_raises, observed,
                   sts_calls, sts_request, response, returned>>
    /\ UNCHANGED <<credLocals, backupVars, arnVars>>

Tick ==
    /\ now < MaxClock
    /\ now' = now + 1
    /\ UNCHANGED <<assumed_role_info, credentials, session_raises, aws_session, cpc,
                   observed, sts_calls, sts_request, response, returned, exit_code>>
    /\ UNCHANGED <<clientVars, backupVars, arnVars>>

\* the credential object asks for new credentials when the ones it holds have
\* expired or expire within RefreshWindow
RefreshWindow == 2
RefreshDue ==
    aws_session.kind = "sts-assume-role" /\ aws_session.expiry - now < RefreshWindow

\* a thread about to send a request finds the credential expired or about to
\* expire: the credential object calls refresh_using, which is
\* AWS_Provider.refresh (line 39); refresh itself looks at no expiry
RefreshNeeded(c) ==
    /\ cpc[c] = "idle" /\ RefreshDue
    /\ observed' = [observed EXCEPT ![c] = aws_session.expiry]
    /\ sts_calls' = [sts_calls EXCEPT ![c] = 0]
    /\ cpc' = [cpc EXCEPT ![c] = "refresh"]
    /\ UNCHANGED <<now, assumed_role_info, credentials, session_raises, aws_session,
                   sts_request, response, returned, exit_code>>
    /\ UNCHANGED <<credLocals, pc, log, backupVars, arnVars>>

\* lines 64-66: refresh logs and calls assume_role
refresh_Call(c) ==
    /\ cpc[c] = "refresh"
    /\ cpc' = [cpc EXCEPT ![c] = "assume_role"]
    /\ log' = log \cup {LogEntry("info", "refresh", c)}
    /\ UNCHANGED <<now, assumed_role_info, credentials, session_raises, aws_session,
                   observed, sts_calls, sts_request, response, returned, exit_code>>
    /\ UNCHANGED <<credLocals, pc, backupVars, arnVars>>

\* lines 67-77: refresh builds the dict, logs it and returns it
refresh_Return(c) ==
    /\ cpc[c] = "refresh_build"
    /\ returned' = [returned EXCEPT ![c] = RefreshedCredentials(response[c])]
    /\ log' = log \cup {LogEntry("info", "refresh", c)}
    /\ cpc' = [cpc EXCEPT ![c] = "returned"]
    /\ UNCHANGED <<now, assumed_role_info, credentials, session_raises, aws_session,
                   observed, sts_calls, sts_request, response, exit_code>>
    /\ UNCHANGED <<credLocals, pc, backupVars, arnVars>>

\* the credential object takes over what refresh returned
Installed(c) ==
    /\ cpc[c] = "returned"
    /\ aws_session' = [aws_session EXCEPT !.expiry = parse_iso(returned[c].expiry_time)]
    /\ cpc' = [cpc EXCEPT ![c] = "idle"]
    /\ UNCHANGED <<now, assumed_role_info, credentials, session_raises, observed,
                   sts_calls, sts_request, response, returned, exit_code>>
    /\ UNCHANGED <<credLocals, pc, log, backupVars, arnVars>>

AWS_Provider ==
    \/ InitialAssumption
    \/ AWS_Provider_init
    \/ set_session
    \/ Tick
    \/ \E c \in Threads : assume_role_Call(c)
    \/ \E c \in Threads : assume_role_ClientRaises(c)
    \/ \E c \in Threads : Sts(c)
    \/ \E c \in Threads : assume_role_Except(c)
    \/ \E c \in Threads : assume_role_Return(c)
    \/ \E c \in Callers : RefreshNeeded(c)
    \/ \E c \in Callers : refresh_Call(c)
    \/ \E c \in Callers : refresh_Return(c)
    \/ \E c \in Callers : Installed(c)

-----------------------------------------------------------------------------
(* get_checks_from_input_arn and get_regions_from_audit_resources          *)
(* (aws_provider.py 162-229).  ARNs, service names, subservice tokens and  *)
(* check names are strings; a Python list or None is a tagged record.      *)

MaxArns == 3        \* length of the ARN list

\* the ARNs of the input lists; the last two have too few fields
ArnUniverse ==
    { "arn:aws:lambda:us-east-1:111111111111:function/my-fn",
      "arn:aws:waf:us-east-1:111111111111:webacl/abc",
      "arn:aws:wafv2:eu-west-1:111111111111:regional/webacl/abc",
      "arn:aws:ec2:eu-west-1:111111111111:security-group/sg-123",
      "arn:aws:ec2:eu-west-1:111111111111:network-acl/acl-1",
      "arn:aws:ec2:us-east-1:111111111111:image/ami-1",
      "arn:aws:iam::111111111111:policy/audit",
      "arn:aws:iam::111111111111:user/alice",
      "arn:aws:elasticloadbalancing:us-east-1:111111111111:loadbalancer/app/web",
      "arn:aws:rds:eu-west-1:111111111111:cluster-snapshot:nightly",
      "arn:aws:s3:::logs-bucket/key",
      "arn:aws:logs:us-east-1:111111111111:log-group:/aws/lambda/my-fn",
      "arn:aws:imagebuilder:us-east-1:111111111111:image/base",
      "arn:aws:s3:us-east-1",
      "arn:aws:ec2" }

\* the check registry: the checks of each service that has check modules
ChecksByService ==
    "awslambda"  :> {"awslambda_function_url_public"}
 @@ "cloudwatch" :> {"cloudwatch_log_group_retention_policy_specific_days_enabled"}
 @@ "ec2"        :> {"ec2_ami_public", "ec2_instance_public_ip",
                     "ec2_networkacl_allow_ingress_any_port",
                     "ec2_securitygroup_default_restrict_traffic"}
 @@ "elb"        :> {"elb_logging_enabled"}
 @@ "iam"        :> {"iam_password_policy_lowercase",
                     "iam_policy_attached_only_to_group_or_roles",
                     "iam_user_mfa_enabled_console_access"}
 @@ "rds"        :> {"rds_instance_backup_enabled", "rds_snapshots_public_access"}
 @@ "s3"         :> {"s3_bucket_public_access"}

\* every check name of the registry, in the order sorted() puts strings
ChecksSorted ==
    << "awslambda_function_url_public",
       "cloudwatch_log_group_retention_policy_specific_days_enabled",
       "ec2_ami_public", "ec2_instance_public_ip",
       "ec2_networkacl_allow_ingress_any_port",
       "ec2_securitygroup_default_restrict_traffic",
       "elb_logging_enabled",
       "iam_password_policy_lowercase",
       "iam_policy_attached_only_to_group_or_roles",
       "iam_user_mfa_enabled_console_access",
       "rds_instance_backup_enabled", "rds_snapshots_public_access",
       "s3_bucket_public_access" >>

\* list_modules(provider, service) raises ModuleNotFoundError
ListModulesRaises(svc) == svc \notin DOMAIN ChecksByService

\* recover_checks_from_service(service_list, provider)
recover_checks_from_service(svcs) == UNION { ChecksByService[v] : v \in svcs }

\* sorted(set of check names)
sorted(S) == SelectSeq(ChecksSorted, LAMBDA c : c \in S)

NoneList == [none |-> TRUE,  list |-> <<>>]
List(q)  == [none |-> FALSE, list |-> q]

\* str.split(sep), sep one character
RECURSIVE split(_, _)
split(s, sep) ==
    IF \E i \in 1..Len(s) : SubSeq(s, i, i) = sep
    THEN LET i == CHOOSE k \in 1..Len(s) :
                     /\ SubSeq(s, k, k) = sep
                     /\ \A j \in 1..(k - 1) : SubSeq(s, j, j) # sep
         IN  <<SubSeq(s, 1, i - 1)>> \o split(SubSeq(s, i + 1, Len(s)), sep)
    ELSE <<s>>

\* str.replace(a, b), a one character
RECURSIVE replace(_, _, _)
replace(s, a, b) ==
    IF s = "" THEN ""
    ELSE (IF SubSeq(s, 1, 1) = a THEN b ELSE SubSeq(s, 1, 1))
         \o replace(SubSeq(s, 2, Len(s)), a, b)

\* sub in s
Contains(sub, s) ==
    \E i \in 1..(Len(s) + 1) :
        /\ i + Len(sub) <= Len(s) + 1
        /\ SubSeq(s, i, i + Len(sub) - 1) = sub

\* q[n] of a Python list raises IndexError
IndexError(q, n) == n >= Len(q)
\* q[n] of a Python list (zero-based)
At(q, n) == q[n + 1]

\* lines 171-172: resource.split(":")[2] and resource.split(":")[5]
ResourceRaises(resource) ==
    \/ IndexError(split(resource, ":"), 2)
    \/ IndexError(split(resource, ":"), 5)
ArnService(resource)    == At(split(resource, ":"), 2)
ArnSubService(resource) ==
    replace(At(split(At(split(resource, ":"), 5), "/"), 0), "-", "_")

\* line 174: WAF services do not have checks
IsWaf(svc) == svc = "wafv2" \/ svc = "waf"

\* a variant of lines 176-181 that keeps the ARN's service name
NormalizeService_Raw(svc) == svc

\* lines 176-181: services whose name differs in the ARNs
NormalizeService(svc) ==
    LET s1 == IF svc = "lambda" THEN "awslambda" ELSE svc
    IN  IF s1 = "elasticloadbalancing" THEN "elb"
        ELSE IF s1 = "logs" THEN "cloudwatch"
        ELSE s1

\* line 167
services_without_subservices == {"guardduty", "kms", "s3", "elb"}

\* a variant of lines 194-203 that does not look at the service
AliasSubService_AnyService(svc, sub) ==
    CASE sub = "security_group"   -> "securitygroup"
      [] sub = "network_acl"      -> "networkacl"
      [] sub = "image"            -> "ami"
      [] sub = "cluster_snapshot" -> "snapshot"
      [] OTHER                    -> sub

\* lines 194-203: some specific subservices
AliasSubService(svc, sub) ==
    LET e1 == IF svc = "ec2" /\ sub = "security_group" THEN "securitygroup" ELSE sub
        e2 == IF svc = "ec2" /\ e1 = "network_acl" THEN "networkacl" ELSE e1
        e3 == IF svc = "ec2" /\ e2 = "image" THEN "ami" ELSE e2
    IN  IF svc = "rds" /\ e3 = "cluster_snapshot" THEN "snapshot" ELSE e3

\* a variant of set.add that forgets what the set held
Add_Replace(S, x) == {x}

\* set.add (lines 189, 204, 206)
Add(S, x) == S \cup {x}

\* the locals of get_checks_from_input_arn that the for loop changes
Locals(svcs, subs, sub) ==
    [service_list |-> svcs, sub_service_list |-> subs, sub_service |-> sub]

\* lines 171-206: the body of the for loop for a resource with enough fields
ResourceBody(st, resource) ==
    LET service0 == ArnService(resource)
        sub0     == ArnSubService(resource)
    IN  IF ~IsWaf(service0)
        THEN LET svc  == NormalizeService(service0)
                 flat == svc \in services_without_subservices
                 sub  == IF flat THEN sub0 ELSE AliasSubService(svc, sub0)
             IN  Locals(IF ListModulesRaises(svc) THEN st.service_list
                        ELSE Add(st.service_list, svc),
                        Add(st.sub_service_list, IF flat THEN svc ELSE sub),
                        sub)
        ELSE Locals(st.service_list, st.sub_service_list, sub0)

\* lines 170-206: the whole loop over a list of resources with enough fields
RECURSIVE ResourceLoop(_, _)
ResourceLoop(st, list) ==
    IF list = <<>> THEN st
    ELSE ResourceLoop(ResourceBody(st, Head(list)), Tail(list))

\* lines 211-214: the checks with audited subservices; sub_service in line 213 is
\* the loop variable of line 172, bound to the last resource's subservice
FilterChecks(checks, subs, sub) ==
    { check \in checks :
        /\ \E t \in subs : Contains(t, check)
        /\ ~(sub = "policy" /\ Contains("password_policy", check)) }

\* a variant of line 225 that appends a region every time it is met
RegionAppended_Always(rgn, list) == rgn # ""

\* line 225: if region and region not in audited_regions
RegionAppended(rgn, list) == rgn # "" /\ rgn \notin Range(list)

\* line 224: resource.split(":")[3]
RegionRaises(resource) == IndexError(split(resource, ":"), 3)
ArnRegion(resource)    == At(split(resource, ":"), 3)

arnInputs == <<fn, arns>>

\* lines 164-169
Checks_Enter ==
    /\ fn = "get_checks_from_input_arn" /\ apc = "start"
    /\ checks_from_arn' = {}
    /\ service_list' = {} /\ sub_service_list' = {}
    /\ apc' = IF arns # <<>> THEN "loop" ELSE "return"
    /\ UNCHANGED <<arnInputs, seen, sub_service, region_list, result>>
    /\ UNCHANGED <<clientVars, backupVars, credVars>>

\* lines 170-206: one iteration of the for loop
Checks_Resource ==
    /\ fn = "get_checks_from_input_arn" /\ apc = "loop"
    /\ seen < Len(arns)
    /\ IF ResourceRaises(arns[seen + 1])
       THEN /\ apc' = "IndexError"
            /\ UNCHANGED <<seen, service_list, sub_service_list, sub_service>>
       ELSE LET st == ResourceBody(Locals(service_list, sub_service_list,
                                          sub_service), arns[seen + 1])
            IN  /\ service_list' = st.service_list
                /\ sub_service_list' = st.sub_service_list
                /\ sub_service' = st.sub_service
                /\ seen' = seen + 1
                /\ apc' = "loop"
    /\ UNCHANGED <<arnInputs, checks_from_arn, region_list, result>>
    /\ UNCHANGED <<clientVars, backupVars, credVars>>

\* lines 208-214
Checks_Filter ==
    /\ fn = "get_checks_from_input_arn" /\ apc = "loop"
    /\ seen = Len(arns)
    /\ checks_from_arn' = FilterChecks(recover_checks_from_service(service_list),
                                       sub_service_list, sub_service)
    /\ apc' = "return"
    /\ UNCHANGED <<arnInputs, seen, service_list, sub_service_list, sub_service,
                   region_list, result>>
    /\ UNCHANGED <<clientVars, backupVars, credVars>>

\* line 217
Checks_Return ==
    /\ fn = "get_checks_from_input_arn" /\ apc = "return"
    /\ result' = List(sorted(checks_from_arn))
    /\ apc' = "done"
    /\ UNCHANGED <<arnInputs, seen, service_list, sub_service_list, sub_service,
                   checks_from_arn, region_list>>
    /\ UNCHANGED <<clientVars, backupVars, credVars>>

get_checks_from_input_arn ==
    Checks_Enter \/ Checks_Resource \/ Checks_Filter \/ Checks_Return

\* lines 223-226: one iteration of the for loop
Regions_Resource ==
    /\ fn = "get_regions_from_audit_resources" /\ apc = "start"
    /\ seen < Len(arns)
    /\ IF RegionRaises(arns[seen + 1])
       THEN /\ apc' = "IndexError"
            /\ UNCHANGED <<seen, region_list>>
       ELSE /\ region_list' =
                  IF RegionAppended(ArnRegion(arns[seen + 1]), region_list)
                  THEN Append(region_list, ArnRegion(arns[seen + 1]))
                  ELSE region_list
            /\ seen' = seen + 1
            /\ apc' = "start"
    /\ UNCHANGED <<arnInputs, service_list, sub_service_list, sub_service,
                   checks_from_arn, result>>
    /\ UNCHANGED <<clientVars, backupVars, credVars>>

\* lines 227-229
Regions_Return ==
    /\ fn = "get_regions_from_audit_resources" /\ apc = "start"
    /\ seen = Len(arns)
    /\ result' = IF region_list # <<>> THEN List(region_list) ELSE NoneList
    /\ apc' = "done"
    /\ UNCHANGED <<arnInputs, seen, service_list, sub_service_list, sub_service,
                   checks_from_arn, region_list>>
    /\ UNCHANGED <<clientVars, backupVars, credVars>>

get_regions_from_audit_resources == Regions_Resource \/ Regions_Return

-----------------------------------------------------------------------------
(* Initial states.                                                         *)

InitBackupVars ==
    /\ region = NoneVal
    /\ backup_vaults = <<>> /\ backup_plans = <<>> /\ backup_report_plans = <<>>
    /\ op = 1 /\ idx = 1
    /\ threads = [o \in Ops |-> [r \in AllRegions |-> "none"]]
    /\ wpc = [r \in AllRegions |-> "off"]
    /\ wpage = [r \in AllRegions |-> <<>>]
    /\ wmore = [r \in AllRegions |-> FALSE]
    /\ listed = [o \in Ops |-> [r \in AllRegions |-> <<>>]]
    /\ unfetched = [o \in Ops |-> [r \in AllRegions |-> <<>>]]
    /\ raised = [o \in Ops |-> [r \in AllRegions |-> "no"]]

InitCredVars ==
    /\ now = 0
    /\ assumed_role_info = NoRole /\ credentials = NoCredentials
    /\ session_raises = FALSE /\ aws_session = NoSession
    /\ cpc = [c \in Threads |-> "off"]
    /\ observed = [c \in Threads |-> 0]
    /\ sts_calls = [c \in Threads |-> 0]
    /\ sts_request = [c \in Threads |-> NoRequest]
    /\ response = [c \in Threads |-> NoResponse]
    /\ returned = [c \in Threads |-> NoReturn]
    /\ exit_code = NoneVal

InitArnLocals ==
    /\ seen = 0 /\ service_list = {} /\ sub_service_list = {}
    /\ sub_service = NoneVal /\ checks_from_arn = {} /\ region_list = <<>>
    /\ result = NoneList

\* neither ARN function runs
InitArnVars == fn = NoneVal /\ arns = <<>> /\ apc = "off" /\ InitArnLocals

InitClientLocals ==
    /\ pc = "grc_regions" /\ regions = <<>> /\ visited = 0 /\ building = <<>>
    /\ regional_clients = NoneDict /\ log = {}

\* generate_regional_clients called on its own, with any arguments
InitClients ==
    /\ caller = "direct"
    /\ service \in Services
    /\ global_service \in BOOLEAN
    /\ audited_partition \in Partitions
    /\ audited_regions \in SUBSET AllRegions
    /\ profile_region \in AllRegions \cup {NoneVal}
    /\ client_raises \in { S \in SUBSET AllRegions : Cardinality(S) <= 1 }
    /\ audit_resources = {}
    /\ InitClientLocals /\ InitBackupVars /\ InitCredVars /\ InitArnVars

\* Backup(audit_info): line 18 calls generate_regional_clients("backup", audit_info)
InitBackup ==
    /\ caller = "Backup"
    /\ service = "backup"
    /\ global_service = FALSE
    /\ audited_partition \in Partitions
    /\ audited_regions \in {{}, {"eu-west-1"}, {"ap-south-1"}}
    /\ profile_region \in {NoneVal, "us-east-1"}
    /\ client_raises \in {{}, {"eu-west-1"}}
    /\ audit_resources \in AuditResourceChoices
    /\ InitClientLocals /\ InitBackupVars /\ InitCredVars /\ InitArnVars

\* AWS_Provider(audit_info), with or without a role to assume
InitCred ==
    /\ caller = "AWS_Provider"
    /\ service = NoneVal /\ global_service = FALSE /\ audited_partition = "aws"
    /\ audited_regions = {} /\ profile_region = NoneVal /\ client_raises = {}
    /\ audit_resources = {}
    /\ pc = "establish" /\ regions = <<>> /\ visited = 0 /\ building = <<>>
    /\ regional_clients = NoneDict /\ log = {}
    /\ InitBackupVars /\ InitArnVars
    /\ now = 0
    /\ assumed_role_info \in
         {NoRole} \cup [role_arn : {"arn:aws:iam::123456789012:role/audit"},
                        external_id : {NoneVal, "external"},
                        session_duration : SessionDurations]
    /\ credentials = NoCredentials
    /\ session_raises \in BOOLEAN
    /\ aws_session = NoSession
    /\ cpc = [c \in Threads |-> "off"]
    /\ observed = [c \in Threads |-> 0]
    /\ sts_calls = [c \in Threads |-> 0]
    /\ sts_request = [c \in Threads |-> NoRequest]
    /\ response = [c \in Threads |-> NoResponse]
    /\ returned = [c \in Threads |-> NoReturn]
    /\ exit_code = NoneVal

\* the lists of at most n elements of S
ListsUpTo(S, n) == UNION { [1..k -> S] : k \in 0..n }

\* one of the two ARN functions called with any list of ARNs
InitArn ==
    /\ caller = "direct"
    /\ service = NoneVal /\ global_service = FALSE /\ audited_partition = "aws"
    /\ audited_regions = {} /\ profile_region = NoneVal /\ client_raises = {}
    /\ audit_resources = {}
    /\ pc = "off" /\ regions = <<>> /\ visited = 0 /\ building = <<>>
    /\ regional_clients = NoneDict /\ log = {}
    /\ InitBackupVars /\ InitCredVars
    /\ fn \in {"get_checks_from_input_arn", "get_regions_from_audit_resources"}
    /\ arns \in ListsUpTo(ArnUniverse, MaxArns)
    /\ apc = "start"
    /\ InitArnLocals

NextBackup  == generate_regional_clients \/ Backup
NextArn     == get_checks_from_input_arn \/ get_regions_from_audit_resources

SpecArn     == InitArn /\ [][NextArn]_vars

SpecCred    == InitCred /\ [][AWS_Provider]_vars
SpecClients == InitClients /\ [][generate_regional_clients]_vars
SpecBackup  == InitBackup /\ [][NextBackup]_vars

-----------------------------------------------------------------------------
(* Properties.                                                             *)

\* __threading_call__ number o has returned to __init__
Returned(o) == pc = "done" \/ (pc \in {"call", "start", "join"} /\ op > o)

RECURSIVE RegionRecords(_, _)
\* the records of a container that carry region r, in container order
RegionRecords(container, r) ==
    IF container = <<>> THEN <<>>
    ELSE (IF Head(container).region = r THEN <<Head(container)>> ELSE <<>>)
         \o RegionRecords(Tail(container), r)

RECURSIVE KeptRecords(_, _, _)
\* the records of the items of a listing that pass the filter
KeptRecords(items, resources, client) ==
    IF items = <<>> THEN <<>>
    ELSE (IF Kept(Head(items), resources) THEN <<Record(Head(items), client)>> ELSE <<>>)
         \o KeptRecords(Tail(items), resources, client)

\* everything the service holds for (o, r): the pages returned and the ones never asked for
AllItems(o, r) == ItemsListed(o, r) \o unfetched[o][r]

NoWorkerRaised == \A o \in Ops, r \in AllRegions : raised[o][r] = "no"

\* C1: when generate_regional_clients has returned for a service the catalog
\* knows, the mapping holds a client for exactly the resolved regions whose client
\* could be built: a region whose instantiation raises is skipped, the others stay.
C1_PartialSuccess ==
    (pc = "returned" /\ CatalogHas(service, audited_partition)) =>
        /\ ~regional_clients.none
        /\ Keys(regional_clients) = Range(regions) \ client_raises

\* C2: an error in one region's worker reaches neither the collector nor a sibling:
\* __init__ raises only before any worker ran, a running worker can always take its
\* next step, and once a __threading_call__ has returned (so also when the collector
\* is done) every worker of it has terminated and every worker that did not raise
\* has all its kept items in the container.
C2_FailureIsolation ==
    /\ pc = "raised" => NoWorkerRaised
    /\ \A o \in Ops, r \in AllRegions : Running(o, r) =>
         IF wpc[r] = "page" THEN NewPages(o, r) # {}
         ELSE ENABLED (Worker_Start(o, r) \/ Worker_Item(o, r)
                       \/ Worker_Return(o, r) \/ Worker_Except(o, r))
    /\ \A o \in Ops : Returned(o) =>
         \A r \in Keys(regional_clients) :
            /\ threads[o][r] = "terminated"
            /\ raised[o][r] = "no" =>
                 RegionRecords(Container(o), r)
                   = KeptRecords(ItemsListed(o, r), audit_resources, ClientOf(r))

\* C2 witness: the collector is done, one region's worker raised in an operation
\* and a sibling of the same operation contributed a record.
C2_Witness ==
    /\ pc = "done"
    /\ \E o \in Ops : \E r1, r2 \in Keys(regional_clients) :
         /\ raised[o][r1] # "no" /\ raised[o][r2] = "no"
         /\ RegionRecords(Container(o), r2) # <<>>

\* C3: once a __threading_call__ has returned, none of the workers it started is
\* running or able to take a step (so none can append any more).
C3_Barrier ==
    \A o \in Ops : Returned(o) =>
        \A r \in AllRegions :
            /\ threads[o][r] \in {"none", "terminated"}
            /\ ~ENABLED Worker(o, r)

\* C3 witness: the first call has returned after two workers ran and appended.
C3_Witness ==
    /\ Returned(1)
    /\ Cardinality({ r \in AllRegions : threads[1][r] = "terminated" }) = 2
    /\ Len(backup_vaults) = 2

\* C4: with an empty filter, when the collector is done (and no worker raised) each
\* container holds exactly one record per item of every page of every region's
\* listing, so its length is the total item count.
C4_OneRecordPerItem ==
    (pc = "done" /\ audit_resources = {} /\ NoWorkerRaised) =>
        \A o \in Ops :
            /\ Len(Container(o))
                 = SumOver(Keys(regional_clients),
                           [r \in Keys(regional_clients) |-> Len(AllItems(o, r))])
            /\ \A r \in Keys(regional_clients) : \A i \in 1..Len(AllItems(o, r)) :
                 Cardinality({ j \in 1..Len(Container(o)) :
                                 Container(o)[j].arn = AllItems(o, r)[i].arn }) = 1

\* C5: with a non-empty filter, every record of the three containers has an ARN
\* that is_resource_filtered accepts, in every state of the run.
C5_OnlyFiltered ==
    audit_resources # {} =>
        \A o \in Ops : \A i \in 1..Len(Container(o)) :
            is_resource_filtered(Container(o)[i].arn, audit_resources)

\* C5 witness: a filter is set, a vault that matches it was appended and a vault
\* that does not match it was listed.
C5_Witness ==
    /\ audit_resources # {}
    /\ backup_vaults # <<>>
    /\ \E r \in AllRegions : \E i \in 1..Len(ItemsListed(1, r)) :
         ~is_resource_filtered(ItemsListed(1, r)[i].arn, audit_resources)

\* C6: when the collector is done, a region whose worker raised in an
\* operation has no record in that operation's container.
C6_FailedRegionContributesNothing ==
    pc = "done" =>
        \A o \in Ops : \A r \in Keys(regional_clients) :
            raised[o][r] # "no" => RegionRecords(Container(o), r) = <<>>

\* the exchange of thread c has failed and assume_role's handling of it is over
FailureHandled(c) == cpc[c] \in {"SystemExit", "raised"}

\* C7: a failed exchange during a refresh reaches the caller as the
\* error raised by the call; sys.exit is not called for it.
C7_RefreshFailurePropagates ==
    \A c \in Callers : FailureHandled(c) =>
        /\ cpc[c] = "raised"
        /\ LogEntry("critical", "assume_role", c) \notin log

InFlight == { c \in Callers : cpc[c] = "sts" }

\* C8: at most one role-assumption exchange of a refresh is in flight at any moment.
C8_SingleFlight == Cardinality(InFlight) <= 1

\* refresh has come to an end for caller c: it returned, or assume_role ended it
RefreshOver(c) == cpc[c] = "returned" \/ FailureHandled(c)

\* C9: every invocation of refresh issues exactly one sts assume_role call, and
\* the credential it returns expires strictly later than the credential it is
\* about to replace (the one the session holds).
C9_OneCallLaterExpiry ==
    \A c \in Callers :
        /\ sts_calls[c] <= 1
        /\ RefreshOver(c) => sts_calls[c] = 1
        /\ cpc[c] = "returned" =>
               parse_iso(returned[c].expiry_time) > aws_session.expiry

\* C10: when the (service, partition) pair is not in the catalog,
\* generate_regional_clients returns an empty mapping and logs no error.
C10_CatalogMissIsEmpty ==
    (pc = "returned" /\ ~CatalogHas(service, audited_partition)) =>
        /\ ~regional_clients.none
        /\ regional_clients.clients = <<>>
        /\ log = {}

\* the effective region set: the catalog's regions for the partition, cut down to
\* the allow-list when there is one
EffectiveSet ==
    LET json == Range(json_regions(service, audited_partition))
    IN  IF audited_regions # {} THEN json \cap audited_regions ELSE json

\* generate_regional_clients has returned a mapping
ReturnedDict == pc = "returned" /\ ~regional_clients.none

\* C11: with global_service=True generate_regional_clients returns at most one
\* entry, and when profile_region is among the effective regions the single
\* entry is the client of profile_region.
C11_GlobalAtMostOne ==
    (ReturnedDict /\ global_service) =>
        /\ Len(regional_clients.clients) <= 1
        /\ profile_region \in EffectiveSet =>
              regional_clients.clients = <<RegionalClient(profile_region)>>

\* the scenario of C11: several effective regions, the profile region among them
\* and not the first of the catalog
C11_Witness ==
    /\ ReturnedDict /\ global_service
    /\ Cardinality(EffectiveSet) > 1
    /\ profile_region \in EffectiveSet
    /\ profile_region # Head(json_regions(service, audited_partition))
    /\ Keys(regional_clients) = {profile_region}

\* the first region of the catalog list that is in S
CatalogFirst(json, S) ==
    json[CHOOSE i \in 1..Len(json) :
            json[i] \in S /\ \A j \in 1..(i - 1) : json[j] \notin S]

\* C12: for a global service whose profile region is not in the effective set,
\* the single client is built for the first effective region in catalog order,
\* with or without an allow-list; no client is built when the set is empty.
C12_FirstInCatalogOrder ==
    (ReturnedDict /\ global_service /\ profile_region \notin EffectiveSet) =>
        regional_clients.clients =
            IF EffectiveSet = {} THEN <<>>
            ELSE <<RegionalClient(CatalogFirst(
                     json_regions(service, audited_partition), EffectiveSet))>>

\* C13: the regions generate_regional_clients builds clients for are regions of
\* the catalog for the partition, and of the allow-list when there is one; with
\* no allow-list and a non-global service they are all of the catalog's regions.
\* The mapping it returns has exactly these regions as keys.
C13_SubsetOfCatalog ==
    (CatalogHas(service, audited_partition) /\ pc # "grc_regions") =>
        LET json  == Range(json_regions(service, audited_partition))
            R     == Range(regions)
            built == { building[i].region_name : i \in 1..Len(building) }
        IN  /\ R \subseteq json
            /\ audited_regions # {} => R \subseteq audited_regions
            /\ (audited_regions = {} /\ ~global_service) => R = json
            /\ built \subseteq R
            /\ ReturnedDict => Keys(regional_clients) = R

\* an allow-list that cuts the catalog down to two of its three regions
C13_Witness ==
    /\ ReturnedDict
    /\ audited_regions # {}
    /\ ~(audited_regions \subseteq Range(json_regions(service, audited_partition)))
    /\ Cardinality(Keys(regional_clients)) = 2
    /\ Keys(regional_clients) # Range(json_regions(service, audited_partition))

\* get_checks_from_input_arn is past its for loop
Resolved == fn = "get_checks_from_input_arn" /\ apc \in {"return", "done"}

\* the function has returned
Done(f) == fn = f /\ apc = "done"

\* an ARN with the fields arn, partition, service, region, account, resource path
WellFormed(arn) == Len(split(arn, ":")) >= 6

\* a token counts as a match for a check: substring containment, except that
\* "policy" does not match a check whose name contains "password_policy"
TokenMatches(t, check) ==
    Contains(t, check) /\ ~(t = "policy" /\ Contains("password_policy", check))

\* C14: a check of the resolved services is selected iff some token of the
\* resolved subservice-token set matches it, where "policy" never matches a
\* check whose name contains "password_policy", whatever the position of the ARN
\* the "policy" token came from.
C14_PolicyCarveOut ==
    Done("get_checks_from_input_arn") =>
        \A check \in recover_checks_from_service(service_list) :
            check \in Range(result.list) <=>
                \E t \in sub_service_list : TokenMatches(t, check)

\* the service names that differ between the ARNs and the check modules
ServiceNames ==
    "lambda" :> "awslambda" @@ "elasticloadbalancing" :> "elb" @@ "logs" :> "cloudwatch"
NormalizedToken(svc) == IF svc \in DOMAIN ServiceNames THEN ServiceNames[svc] ELSE svc

\* the resources of the list whose service is neither waf nor wafv2
NonWaf(list) == { a \in Range(list) : ArnService(a) \notin {"waf", "wafv2"} }

\* C15: the resolved service set is exactly the normalized service tokens of the
\* ARNs whose service is neither waf nor wafv2 and has a check module; waf ARNs
\* and services without a check module add nothing and raise no error.
C15_ServiceSet ==
    (fn = "get_checks_from_input_arn" /\ \A a \in Range(arns) : WellFormed(a)) =>
        /\ apc # "IndexError"
        /\ Resolved =>
             service_list =
                 { v \in { NormalizedToken(ArnService(a)) : a \in NonWaf(arns) } :
                     v \in DOMAIN ChecksByService }

\* the scenario of C15: a lambda ARN and a waf ARN resolve to {"awslambda"}
C15_Witness ==
    /\ Done("get_checks_from_input_arn")
    /\ arns = << "arn:aws:lambda:us-east-1:111111111111:function/my-fn",
                 "arn:aws:waf:us-east-1:111111111111:webacl/abc" >>
    /\ service_list = {"awslambda"}

\* the per-service alias table of subservice tokens
SubServiceNames ==
    "ec2" :> ("security_group" :> "securitygroup" @@ "network_acl" :> "networkacl"
              @@ "image" :> "ami")
 @@ "rds" :> ("cluster_snapshot" :> "snapshot")

\* the first slash-delimited segment of the resource path, hyphens as underscores
PathToken(arn) == replace(split(split(arn, ":")[6], "/")[1], "-", "_")

\* the subservice token of an ARN
SubServiceToken(arn) ==
    LET svc == NormalizedToken(ArnService(arn))
        t   == PathToken(arn)
    IN  IF svc \in {"guardduty", "kms", "s3", "elb"} THEN svc
        ELSE IF svc \in DOMAIN SubServiceNames /\ t \in DOMAIN SubServiceNames[svc]
             THEN SubServiceNames[svc][t]
             ELSE t

\* C16: the subservice token of a flat service (guardduty, kms, s3, elb) is the
\* service identifier; of any other service it is the first slash-delimited
\* segment of the resource path with hyphens as underscores, mapped by the alias
\* table of that service only, unlisted tokens unchanged.
C16_SubServiceTokens ==
    (Resolved /\ \A a \in Range(arns) : WellFormed(a)) =>
        sub_service_list = { SubServiceToken(a) : a \in NonWaf(arns) }

\* an EC2 security group, an image of another service, and a flat service
C16_Witness ==
    /\ Done("get_checks_from_input_arn")
    /\ sub_service_list = {"securitygroup", "image", "elb"}

\* the region fields of a list of ARNs
RegionFields(list) == [i \in 1..Len(list) |-> split(list[i], ":")[4]]
FirstAt(q, x) == CHOOSE i \in 1..Len(q) : q[i] = x /\ \A j \in 1..(i - 1) : q[j] # x

\* C17: get_regions_from_audit_resources returns the non-empty region fields of
\* the ARNs, each once, in order of first appearance; when no ARN has a region
\* (the empty list included) it returns None, never an empty list.
C17_RegionsFirstAppearance ==
    (Done("get_regions_from_audit_resources")
       /\ \A a \in Range(arns) : Len(split(a, ":")) >= 4) =>
        LET f  == RegionFields(arns)
            S  == Range(f) \ {""}
            rl == result.list
        IN  IF S = {} THEN result = NoneList
            ELSE /\ ~result.none
                 /\ Range(rl) = S
                 /\ Len(rl) = Cardinality(S)
                 /\ \A i, j \in 1..Len(rl) :
                        i < j => FirstAt(f, rl[i]) < FirstAt(f, rl[j])

\* three ARNs: a repeated region and an empty region field
C17_Witness ==
    /\ Done("get_regions_from_audit_resources")
    /\ Len(arns) = 3
    /\ "" \in Range(RegionFields(arns))
    /\ ~result.none /\ Len(result.list) = 1
    /\ RegionFields(arns)[1] = RegionFields(arns)[3]

\* the permutations of a list
PermutationsOf(list) ==
    { [i \in 1..Len(list) |-> list[f[i]]] : f \in Permutations(1..Len(list)) }

\* C18: the service set and the subservice-token set derived from a list of ARNs
\* are the same for every permutation of the list.
C18_OrderInvariant ==
    (Resolved /\ arns # <<>>) =>
        \A p \in PermutationsOf(arns) :
            LET st == ResourceLoop(Locals({}, {}, NoneVal), p)
            IN  /\ st.service_list = service_list
                /\ st.sub_service_list = sub_service_list

\* three different ARNs of several services
C18_Witness ==
    /\ Done("get_checks_from_input_arn")
    /\ Len(arns) = 3
    /\ Cardinality(service_list) >= 2
    /\ Cardinality(sub_service_list) = 3

\* C19: for an ARN list holding a malformed ARN (too few colon-delimited fields)
\* both functions end in an error; neither returns a result.
C19_MalformedFailsLoudly ==
    (\E a \in Range(arns) : ~WellFormed(a)) => apc # "done"

\* C20: every record in a Backup container carries the region of the regional
\* client whose worker produced it, and that is the region the client was
\* created for.
C20_RecordRegion ==
    \A o \in Ops : \A i \in 1..Len(Container(o)) :
        LET rec == Container(o)[i]
        IN  \E r \in Keys(regional_clients) :
                /\ \E k \in 1..Len(ItemsListed(o, r)) :
                       ItemsListed(o, r)[k].arn = rec.arn
                /\ rec.region = ClientOf(r).region
                /\ ClientOf(r).region = r

\* a container with records of two regions
C20_Witness ==
    \E o \in Ops : \E i, j \in 1..Len(Container(o)) :
        Container(o)[i].region # Container(o)[j].region

\* p is q cut after some element
IsPrefix(p, q) == Len(p) <= Len(q) /\ p = SubSeq(q, 1, Len(p))

\* C21: under any interleaving of the workers, the records of one region appear
\* in a container in the order in which that region's listing produced their
\* items (page order, then item order within a page), whatever records of other
\* regions lie between them.
C21_RegionOrder ==
    \A o \in Ops : \A r \in Keys(regional_clients) :
        IsPrefix(RegionRecords(Container(o), r),
                 KeptRecords(ItemsListed(o, r), audit_resources, ClientOf(r)))

\* two records of one region with a record of another region between them: the
\* workers of the two regions appended in turn
C21_Witness ==
    \E o \in Ops : \E i, j, k \in 1..Len(Container(o)) :
        /\ i < j /\ j < k
        /\ Container(o)[i].region = Container(o)[k].region
        /\ Container(o)[j].region # Container(o)[i].region

\* get_checks_from_input_arn(list) as one value, for a list of well-formed ARNs
ChecksOf(list) ==
    IF list = <<>> THEN List(sorted({}))
    ELSE LET st == ResourceLoop(Locals({}, {}, NoneVal), list)
         IN  List(sorted(FilterChecks(recover_checks_from_service(st.service_list),
                                      st.sub_service_list, st.sub_service)))

\* the ARNs of the inputs whose service is waf or wafv2
WafArns == { a \in ArnUniverse : WellFormed(a) /\ IsWaf(ArnService(a)) }

\* the list without its i-th element
Without(list, i) == SubSeq(list, 1, i - 1) \o SubSeq(list, i + 1, Len(list))

\* C22: the list of checks get_checks_from_input_arn returns is the same for
\* every permutation of the ARN list, and adding or removing a waf or wafv2 ARN
\* does not change it.
C22_ChecksOrderAndWafInvariant ==
    (Done("get_checks_from_input_arn") /\ \A a \in Range(arns) : WellFormed(a)) =>
        /\ \A p \in PermutationsOf(arns) : ChecksOf(p) = result
        /\ \A w \in WafArns : ChecksOf(Append(arns, w)) = result
        /\ \A i \in 1..Len(arns) :
               arns[i] \in WafArns => ChecksOf(Without(arns, i)) = result

\* generate_regional_clients has returned to Backup.__init__
ClientsReturned == caller = "Backup" /\ pc \notin {"grc_regions", "grc_loop", "grc_except"}

\* it yielded no clients: None (catalog miss, logged failure) or an empty mapping
NoClients == ClientsReturned /\ (regional_clients.none \/ regional_clients.clients = <<>>)

\* C23: when generate_regional_clients yields no clients, with or without a
\* profile region, the construction of the Backup collector does not raise and
\* the three containers stay empty.
C23_NoClientsCompletes ==
    NoClients =>
        /\ pc # "raised"
        /\ backup_vaults = <<>> /\ backup_plans = <<>> /\ backup_report_plans = <<>>

=============================================================================
